---------------------------- MODULE Spec2Model ----------------------------
(***************************************************************************)
(* Model of the compose-hash tools of reproducible-builds-playground:      *)
(*   dstack/get-compose-hash.py      (canonical serializer, literal        *)
(*                                    renderer, hasher)                    *)
(*   dstack/verify-deployed-hash.py  (verify command)                      *)
(*                                                                         *)
(* Text is modelled at character level: a string is a sequence of          *)
(* characters, a character is a one-character TLA+ string, and the two     *)
(* characters that a TLA+ string cannot hold are the atoms "U+0001" (a     *)
(* control character) and "U+00E9" (a non-ASCII letter).  Two documents    *)
(* are byte-identical iff their character sequences are equal.             *)
(***************************************************************************)
EXTENDS Integers, Sequences, FiniteSets, TLC

VARIABLES
    pc,                 \* position of the running command
    compose_text,       \* content of the local docker-compose file, or NoFile
    app_compose,        \* manifest dict built by docker_compose_to_app_compose
    rendered,           \* result of to_dstack_format_json
    compose_hash,       \* result of get_compose_hash
    argc,               \* len(sys.argv) of the verify command
    deployed_file,      \* bytes of the deployed app-compose file, or NoFile
    deployed_salt,      \* deployed_app_compose.get("salt")
    deployed_hash,      \* sha256 of the deployed file's bytes
    our_formatted_json, \* document rendered inside verify_deployed_hash
    saved_file,         \* content of our-app-compose-with-deployed-salt.json
    our_hash,           \* sha256 of our_formatted_json
    success,            \* return value of verify_deployed_hash (FALSE until
                        \* Compare binds it)
    exit_status,        \* exit status of the process
    data,               \* argument of to_deterministic_json
    sorted_data,        \* sort_object(data)
    processed_data,     \* process_data(sorted_data)
    deterministic_json  \* result of to_deterministic_json

vars == <<pc, compose_text, app_compose, rendered, compose_hash, argc,
          deployed_file, deployed_salt, deployed_hash, our_formatted_json,
          saved_file, our_hash, success, exit_status, data, sorted_data,
          processed_data, deterministic_json>>

renderVars == <<compose_text, app_compose, rendered, compose_hash>>
verifyVars == <<argc, deployed_file, deployed_salt, deployed_hash,
                our_formatted_json, saved_file, our_hash, success, exit_status>>
canonVars == <<data, sorted_data, processed_data, deterministic_json>>

\* Values that are no text.  Each is a one-element sequence whose element is
\* no character, so that it differs from every text.
\* A variable that holds nothing yet (Python: name not bound).
NoValue == <<"<unbound>">>
\* A path at which no file exists.
NoFile == <<"<no file>">>
\* Python's None.
None == <<"<None>">>
\* The exit status of a process that has not exited.
Running == -1

-----------------------------------------------------------------------------
(* Bounds of the model.                                                    *)

\* Longest local compose text, counted in chunks of TextChunks.
MaxComposeLen == 2
\* Longest caller-supplied boot script, counted in chunks of TextChunks.
MaxScriptLen == 1
\* Longest non-default salt, in hex digits.
MaxSaltLen == 1

-----------------------------------------------------------------------------
(* Constants of the source.                                                *)

\* The template of to_dstack_format_json.
template ==
    <<
       "{", "\n", " ", " ", " ", " ", "\"", "a", "l", "l", "o", "w", "e", "d",
       "_", "e", "n", "v", "s", "\"", ":", "[", "]", ",", "\n", " ", " ", " ",
       " ", "\"", "d", "e", "f", "a", "u", "l", "t", "_", "g", "a", "t", "e",
       "w", "a", "y", "_", "d", "o", "m", "a", "i", "n", "\"", ":", "n", "u",
       "l", "l", ",", "\n", " ", " ", " ", " ", "\"", "d", "o", "c", "k", "e",
       "r", "_", "c", "o", "m", "p", "o", "s", "e", "_", "f", "i", "l", "e",
       "\"", ":", "\"", "D", "O", "C", "K", "E", "R", "_", "C", "O", "M", "P",
       "O", "S", "E", "_", "C", "O", "N", "T", "E", "N", "T", "\"", ",", "\n",
       " ", " ", " ", " ", "\"", "f", "e", "a", "t", "u", "r", "e", "s", "\"",
       ":", "[", "\n", " ", " ", " ", " ", " ", " ", " ", " ", "\"", "k", "m",
       "s", "\"", ",", "\n", " ", " ", " ", " ", " ", " ", " ", " ", "\"", "t",
       "p", "r", "o", "x", "y", "-", "n", "e", "t", "\"", "\n", " ", " ", " ",
       " ", "]", ",", "\n", " ", " ", " ", " ", "\"", "g", "a", "t", "e", "w",
       "a", "y", "_", "e", "n", "a", "b", "l", "e", "d", "\"", ":", "t", "r",
       "u", "e", ",", "\n", " ", " ", " ", " ", "\"", "k", "m", "s", "_", "e",
       "n", "a", "b", "l", "e", "d", "\"", ":", "t", "r", "u", "e", ",", "\n",
       " ", " ", " ", " ", "\"", "l", "o", "c", "a", "l", "_", "k", "e", "y",
       "_", "p", "r", "o", "v", "i", "d", "e", "r", "_", "e", "n", "a", "b",
       "l", "e", "d", "\"", ":", "f", "a", "l", "s", "e", ",", "\n", " ", " ",
       " ", " ", "\"", "m", "a", "n", "i", "f", "e", "s", "t", "_", "v", "e",
       "r", "s", "i", "o", "n", "\"", ":", "2", ",", "\n", " ", " ", " ", " ",
       "\"", "n", "a", "m", "e", "\"", ":", "\"", "s", "i", "m", "p", "l", "e",
       "-", "d", "e", "t", "-", "a", "p", "p", "-", "v", "e", "r", "i", "f",
       "i", "c", "a", "t", "i", "o", "n", "\"", ",", "\n", " ", " ", " ", " ",
       "\"", "n", "o", "_", "i", "n", "s", "t", "a", "n", "c", "e", "_", "i",
       "d", "\"", ":", "f", "a", "l", "s", "e", ",", "\n", " ", " ", " ", " ",
       "\"", "p", "r", "e", "_", "l", "a", "u", "n", "c", "h", "_", "s", "c",
       "r", "i", "p", "t", "\"", ":", "\"", "P", "R", "E", "_", "L", "A", "U",
       "N", "C", "H", "_", "S", "C", "R", "I", "P", "T", "\"", ",", "\n", " ",
       " ", " ", " ", "\"", "p", "u", "b", "l", "i", "c", "_", "l", "o", "g",
       "s", "\"", ":", "t", "r", "u", "e", ",", "\n", " ", " ", " ", " ", "\"",
       "p", "u", "b", "l", "i", "c", "_", "s", "y", "s", "i", "n", "f", "o",
       "\"", ":", "t", "r", "u", "e", ",", "\n", " ", " ", " ", " ", "\"", "r",
       "u", "n", "n", "e", "r", "\"", ":", "\"", "d", "o", "c", "k", "e", "r",
       "-", "c", "o", "m", "p", "o", "s", "e", "\"", ",", "\n", " ", " ", " ",
       " ", "\"", "s", "a", "l", "t", "\"", ":", "\"", "0", "5", "f", "c", "e",
       "f", "a", "e", "c", "d", "9", "8", "4", "2", "0", "4", "b", "b", "6",
       "c", "c", "f", "1", "6", "9", "3", "8", "e", "a", "a", "d", "5", "\"",
       ",", "\n", " ", " ", " ", " ", "\"", "t", "p", "r", "o", "x", "y", "_",
       "e", "n", "a", "b", "l", "e", "d", "\"", ":", "t", "r", "u", "e", "\n",
       "}"
    >>

\* The placeholders of the template.
DOCKER_COMPOSE_CONTENT ==
    <<
       "D", "O", "C", "K", "E", "R", "_", "C", "O", "M", "P", "O", "S", "E",
       "_", "C", "O", "N", "T", "E", "N", "T"
    >>

PRE_LAUNCH_SCRIPT ==
    <<
       "P", "R", "E", "_", "L", "A", "U", "N", "C", "H", "_", "S", "C", "R",
       "I", "P", "T"
    >>

\* The salt docker_compose_to_app_compose puts into a manifest.
DEFAULT_SALT ==
    <<
       "0", "5", "f", "c", "e", "f", "a", "e", "c", "d", "9", "8", "4", "2",
       "0", "4", "b", "b", "6", "c", "c", "f", "1", "6", "9", "3", "8", "e",
       "a", "a", "d", "5"
    >>

\* The name docker_compose_to_app_compose gives the deployment.
deployment_name ==
    <<
       "s", "i", "m", "p", "l", "e", "-", "d", "e", "t", "-", "a", "p", "p",
       "-", "v", "e", "r", "i", "f", "i", "c", "a", "t", "i", "o", "n"
    >>

\* The default boot script.  The literal in the source is about 5000
\* characters long; the model keeps its first 19, which hold a newline, a
\* slash and a quote.  No operation looks inside the script: it is escaped
\* and embedded as a whole.
get_default_pre_launch_script ==
    <<
       "\n", "#", "!", "/", "b", "i", "n", "/", "b", "a", "s", "h", "\n", "e",
       "c", "h", "o", " ", "\""
    >>

\* The f-string of verify_deployed_hash, cut at its three replacement
\* fields: {docker_compose_escaped}, {pre_launch_escaped}, {deployed_salt}.
fstring_head ==
    <<
       "{", "\n", " ", " ", " ", " ", "\"", "a", "l", "l", "o", "w", "e", "d",
       "_", "e", "n", "v", "s", "\"", ":", "[", "]", ",", "\n", " ", " ", " ",
       " ", "\"", "d", "e", "f", "a", "u", "l", "t", "_", "g", "a", "t", "e",
       "w", "a", "y", "_", "d", "o", "m", "a", "i", "n", "\"", ":", "n", "u",
       "l", "l", ",", "\n", " ", " ", " ", " ", "\"", "d", "o", "c", "k", "e",
       "r", "_", "c", "o", "m", "p", "o", "s", "e", "_", "f", "i", "l", "e",
       "\"", ":", "\""
    >>

fstring_after_compose ==
    <<
       "\"", ",", "\n", " ", " ", " ", " ", "\"", "f", "e", "a", "t", "u", "r",
       "e", "s", "\"", ":", "[", "\n", " ", " ", " ", " ", " ", " ", " ", " ",
       "\"", "k", "m", "s", "\"", ",", "\n", " ", " ", " ", " ", " ", " ", " ",
       " ", "\"", "t", "p", "r", "o", "x", "y", "-", "n", "e", "t", "\"", "\n",
       " ", " ", " ", " ", "]", ",", "\n", " ", " ", " ", " ", "\"", "g", "a",
       "t", "e", "w", "a", "y", "_", "e", "n", "a", "b", "l", "e", "d", "\"",
       ":", "t", "r", "u", "e", ",", "\n", " ", " ", " ", " ", "\"", "k", "m",
       "s", "_", "e", "n", "a", "b", "l", "e", "d", "\"", ":", "t", "r", "u",
       "e", ",", "\n", " ", " ", " ", " ", "\"", "l", "o", "c", "a", "l", "_",
       "k", "e", "y", "_", "p", "r", "o", "v", "i", "d", "e", "r", "_", "e",
       "n", "a", "b", "l", "e", "d", "\"", ":", "f", "a", "l", "s", "e", ",",
       "\n", " ", " ", " ", " ", "\"", "m", "a", "n", "i", "f", "e", "s", "t",
       "_", "v", "e", "r", "s", "i", "o", "n", "\"", ":", "2", ",", "\n", " ",
       " ", " ", " ", "\"", "n", "a", "m", "e", "\"", ":", "\"", "s", "i", "m",
       "p", "l", "e", "-", "d", "e", "t", "-", "a", "p", "p", "-", "v", "e",
       "r", "i", "f", "i", "c", "a", "t", "i", "o", "n", "\"", ",", "\n", " ",
       " ", " ", " ", "\"", "n", "o", "_", "i", "n", "s", "t", "a", "n", "c",
       "e", "_", "i", "d", "\"", ":", "f", "a", "l", "s", "e", ",", "\n", " ",
       " ", " ", " ", "\"", "p", "r", "e", "_", "l", "a", "u", "n", "c", "h",
       "_", "s", "c", "r", "i", "p", "t", "\"", ":", "\""
    >>

fstring_after_script ==
    <<
       "\"", ",", "\n", " ", " ", " ", " ", "\"", "p", "u", "b", "l", "i", "c",
       "_", "l", "o", "g", "s", "\"", ":", "t", "r", "u", "e", ",", "\n", " ",
       " ", " ", " ", "\"", "p", "u", "b", "l", "i", "c", "_", "s", "y", "s",
       "i", "n", "f", "o", "\"", ":", "t", "r", "u", "e", ",", "\n", " ", " ",
       " ", " ", "\"", "r", "u", "n", "n", "e", "r", "\"", ":", "\"", "d", "o",
       "c", "k", "e", "r", "-", "c", "o", "m", "p", "o", "s", "e", "\"", ",",
       "\n", " ", " ", " ", " ", "\"", "s", "a", "l", "t", "\"", ":", "\""
    >>

fstring_tail ==
    <<
       "\"", ",", "\n", " ", " ", " ", " ", "\"", "t", "p", "r", "o", "x", "y",
       "_", "e", "n", "a", "b", "l", "e", "d", "\"", ":", "t", "r", "u", "e",
       "\n", "}"
    >>
-----------------------------------------------------------------------------
(* Input texts.                                                            *)

\* The pieces input texts are made of: an ordinary letter, the characters
\* JSON escapes, characters JSON leaves alone, and the two placeholder
\* tokens of the template.
TextChunks ==
    { <<"n">>, <<"\"">>, <<"\\">>, <<"\n">>, <<"/">>, <<"U+0001">>,
      <<"U+00E9">>, DOCKER_COMPOSE_CONTENT, PRE_LAUNCH_SCRIPT }

RECURSIVE TextsUpTo(_)
TextsUpTo(n) ==
    IF n = 0 THEN { <<>> }
    ELSE LET shorter == TextsUpTo(n - 1)
         IN  shorter \cup { t \o c : t \in shorter, c \in TextChunks }

ComposeTexts == TextsUpTo(MaxComposeLen)
BootScripts == TextsUpTo(MaxScriptLen) \cup { get_default_pre_launch_script }

HexDigits == { <<"0">>, <<"f">> }

RECURSIVE HexUpTo(_)
HexUpTo(n) ==
    IF n = 0 THEN { <<>> }
    ELSE LET shorter == HexUpTo(n - 1)
         IN  shorter \cup { t \o c : t \in shorter, c \in HexDigits }

Salts == HexUpTo(MaxSaltLen) \cup { DEFAULT_SALT }

-----------------------------------------------------------------------------
(* Python string operations.                                               *)

\* A faulty escape that lets a backslash through as it is.
EscapeChar_backslash_kept(c) ==
    CASE c = "\""     -> <<"\\", "\"">>
      [] c = "\n"     -> <<"\\", "n">>
      [] c = "\r"     -> <<"\\", "r">>
      [] c = "\t"     -> <<"\\", "t">>
      [] c = "U+0001" -> <<"\\", "u", "0", "0", "0", "1">>
      [] OTHER        -> <<c>>

\* json.dumps's escape of one character (ensure_ascii=False): quote,
\* backslash and control characters are escaped, everything else is kept.
EscapeChar(c) ==
    CASE c = "\""     -> <<"\\", "\"">>
      [] c = "\\"     -> <<"\\", "\\">>
      [] c = "\n"     -> <<"\\", "n">>
      [] c = "\r"     -> <<"\\", "r">>
      [] c = "\t"     -> <<"\\", "t">>
      [] c = "U+0001" -> <<"\\", "u", "0", "0", "0", "1">>
      [] OTHER        -> <<c>>

RECURSIVE EscapeString(_)
EscapeString(s) ==
    IF s = <<>> THEN <<>>
    ELSE EscapeChar(Head(s)) \o EscapeString(Tail(s))

\* json.dumps(s, ensure_ascii=False) of a str.
json_dumps_str(s) == <<"\"">> \o EscapeString(s) \o <<"\"">>

\* The slice x[1:-1].
slice_1_m1(x) == SubSeq(x, 2, Len(x) - 1)

\* str.find + 1: index of the first occurrence of old in s, 0 when absent.
FirstIndex(s, old) ==
    LET hits == { i \in 1..(Len(s) - Len(old) + 1) :
                    /\ s[i] = old[1]
                    /\ SubSeq(s, i, i + Len(old) - 1) = old }
    IN  IF hits = {} THEN 0
        ELSE CHOOSE i \in hits : \A j \in hits : i <= j

\* str.replace(old, new): every non-overlapping occurrence, left to right;
\* the text put in is not searched again.
RECURSIVE str_replace(_, _, _)
str_replace(s, old, new) ==
    LET i == FirstIndex(s, old)
    IN  IF i = 0 THEN s
        ELSE SubSeq(s, 1, i - 1) \o new
             \o str_replace(SubSeq(s, i + Len(old), Len(s)), old, new)

\* hashlib.sha256(b).hexdigest(), idealised as a collision-free digest: the
\* digest of b is a value that determines b.
sha256_hexdigest(b) == <<"<sha256 of>">> \o b

-----------------------------------------------------------------------------
(* get-compose-hash.py: manifest builder, literal renderer, hasher.        *)

docker_compose_to_app_compose(docker_compose_content) ==
    [ allowed_envs |-> <<>>,
      default_gateway_domain |-> None,
      docker_compose_file |-> docker_compose_content,
      features |-> << <<"k", "m", "s">>,
                      <<"t", "p", "r", "o", "x", "y", "-", "n", "e", "t">> >>,
      gateway_enabled |-> TRUE,
      kms_enabled |-> TRUE,
      local_key_provider_enabled |-> FALSE,
      manifest_version |-> 2,
      name |-> deployment_name,
      no_instance_id |-> FALSE,
      pre_launch_script |-> get_default_pre_launch_script,
      public_logs |-> TRUE,
      public_sysinfo |-> TRUE,
      runner |-> <<"d", "o", "c", "k", "e", "r", "-", "c", "o", "m", "p",
                   "o", "s", "e">>,
      salt |-> DEFAULT_SALT,
      tproxy_enabled |-> TRUE ]

to_dstack_format_json(d) ==
    LET docker_compose_content == d.docker_compose_file
        pre_launch_script == d.pre_launch_script
        docker_compose_escaped ==
            slice_1_m1(json_dumps_str(docker_compose_content))
        pre_launch_escaped == slice_1_m1(json_dumps_str(pre_launch_script))
        result1 == str_replace(template, DOCKER_COMPOSE_CONTENT,
                               docker_compose_escaped)
    IN  str_replace(result1, PRE_LAUNCH_SCRIPT, pre_launch_escaped)

get_compose_hash(app_compose_data) ==
    sha256_hexdigest(to_dstack_format_json(app_compose_data))

-----------------------------------------------------------------------------
(* Reading a document back: what a JSON parser returns for one string      *)
(* field of a rendered manifest.                                           *)

\* Index of the quote that closes the string literal whose content starts at
\* i (a backslash takes the next character with it), 0 when there is none.
RECURSIVE StringEnd(_, _)
StringEnd(doc, i) ==
    IF i > Len(doc) THEN 0
    ELSE IF doc[i] = "\"" THEN i
    ELSE IF doc[i] = "\\" THEN StringEnd(doc, i + 2)
    ELSE StringEnd(doc, i + 1)

\* The character a \uXXXX escape stands for.
UnicodeAtom(hex4) ==
    "U+" \o hex4[1] \o hex4[2] \o hex4[3] \o hex4[4]

\* The text a JSON string literal's content stands for.
RECURSIVE UnescapeString(_)
UnescapeString(raw) ==
    IF raw = <<>> THEN <<>>
    ELSE IF Head(raw) # "\\" THEN <<Head(raw)>> \o UnescapeString(Tail(raw))
    ELSE IF Len(raw) >= 6 /\ raw[2] = "u"
         THEN <<UnicodeAtom(SubSeq(raw, 3, 6))>>
              \o UnescapeString(SubSeq(raw, 7, Len(raw)))
    ELSE IF Len(raw) >= 2
         THEN << CASE raw[2] = "n" -> "\n"
                   [] raw[2] = "r" -> "\r"
                   [] raw[2] = "t" -> "\t"
                   [] OTHER -> raw[2] >>
              \o UnescapeString(SubSeq(raw, 3, Len(raw)))
    ELSE <<"\\">>

\* The opening of the member with the given key: "key":"
MemberOpening(key) == <<"\"">> \o key \o <<"\"", ":", "\"">>

\* json.loads(doc).get(key) for a document with the manifest's layout whose
\* member key, when present, is a string: None when the member is absent.
\* In such a document every quote inside a string value is preceded by a
\* backslash, so the first occurrence of "key":" is the member itself.
json_get_string(doc, key) ==
    LET opening == MemberOpening(key)
        i == FirstIndex(doc, opening)
        from == i + Len(opening)
        to == StringEnd(doc, from)
    IN  IF i = 0 \/ to = 0 THEN None
        ELSE UnescapeString(SubSeq(doc, from, to - 1))

key_docker_compose_file ==
    <<"d", "o", "c", "k", "e", "r", "_", "c", "o", "m", "p", "o", "s", "e",
      "_", "f", "i", "l", "e">>
key_pre_launch_script ==
    <<"p", "r", "e", "_", "l", "a", "u", "n", "c", "h", "_", "s", "c", "r",
      "i", "p", "t">>
key_salt == <<"s", "a", "l", "t">>

-----------------------------------------------------------------------------
(* Specification SpecRender: a caller builds a manifest, renders it with   *)
(* to_dstack_format_json and hashes it with get_compose_hash.              *)

InitRender ==
    /\ pc = "build"
    /\ compose_text \in ComposeTexts
    /\ app_compose = NoValue
    /\ rendered = NoValue
    /\ compose_hash = NoValue
    /\ argc = 0
    /\ deployed_file = NoFile
    /\ deployed_salt = NoValue
    /\ deployed_hash = NoValue
    /\ our_formatted_json = NoValue
    /\ saved_file = NoFile
    /\ our_hash = NoValue
    /\ success = FALSE
    /\ exit_status = Running
    /\ data = NoValue
    /\ sorted_data = NoValue
    /\ processed_data = NoValue
    /\ deterministic_json = NoValue

\* app_compose_data = docker_compose_to_app_compose(docker_compose_path)
BuildManifest ==
    /\ pc = "build"
    /\ app_compose' = docker_compose_to_app_compose(compose_text)
    /\ pc' = "built"
    /\ UNCHANGED <<compose_text, rendered, compose_hash>>
    /\ UNCHANGED verifyVars
    /\ UNCHANGED canonVars

\* The caller overrides the salt of the manifest it passes on
\* (our_app_compose["salt"] = deployed_salt in verify_deployed_hash).
SetSalt ==
    /\ pc = "built"
    /\ app_compose.salt = DEFAULT_SALT
    /\ \E s \in Salts \ {DEFAULT_SALT} :
          app_compose' = [app_compose EXCEPT !.salt = s]
    /\ UNCHANGED <<pc, compose_text, rendered, compose_hash>>
    /\ UNCHANGED verifyVars
    /\ UNCHANGED canonVars

\* The caller passes a manifest with a boot script of its own: data is a
\* parameter of to_dstack_format_json and any manifest may be given.
SetBootScript ==
    /\ pc = "built"
    /\ app_compose.pre_launch_script = get_default_pre_launch_script
    /\ \E b \in BootScripts \ {get_default_pre_launch_script} :
          app_compose' = [app_compose EXCEPT !.pre_launch_script = b]
    /\ UNCHANGED <<pc, compose_text, rendered, compose_hash>>
    /\ UNCHANGED verifyVars
    /\ UNCHANGED canonVars

\* dstack_formatted_json = to_dstack_format_json(app_compose_data)
Render ==
    /\ pc = "built"
    /\ rendered' = to_dstack_format_json(app_compose)
    /\ pc' = "rendered"
    /\ UNCHANGED <<compose_text, app_compose, compose_hash>>
    /\ UNCHANGED verifyVars
    /\ UNCHANGED canonVars

\* compose_hash = get_compose_hash(app_compose_data)
Hash ==
    /\ pc = "rendered"
    /\ compose_hash' = get_compose_hash(app_compose)
    /\ pc' = "hashed"
    /\ UNCHANGED <<compose_text, app_compose, rendered>>
    /\ UNCHANGED verifyVars
    /\ UNCHANGED canonVars

NextRender == BuildManifest \/ SetSalt \/ SetBootScript \/ Render \/ Hash

SpecRender == InitRender /\ [][NextRender]_vars

-----------------------------------------------------------------------------
(* verify-deployed-hash.py: the verify command.                            *)

\* What an f-string writes for a replacement field: str(value).
py_format(value) ==
    IF value = None THEN <<"N", "o", "n", "e">> ELSE value

\* A faulty f-string that keeps the template's salt.
format_our_json_template_salt(docker_compose_escaped, pre_launch_escaped, salt) ==
    fstring_head \o docker_compose_escaped
    \o fstring_after_compose \o pre_launch_escaped
    \o fstring_after_script \o DEFAULT_SALT
    \o fstring_tail

\* The f-string of verify_deployed_hash with its three fields filled in.
format_our_json(docker_compose_escaped, pre_launch_escaped, salt) ==
    fstring_head \o docker_compose_escaped
    \o fstring_after_compose \o pre_launch_escaped
    \o fstring_after_script \o py_format(salt)
    \o fstring_tail

\* Lines 40-72 of verify_deployed_hash: the local manifest with the deployed
\* salt, rendered.
our_app_compose_for(docker_compose_content, salt) ==
    [docker_compose_to_app_compose(docker_compose_content)
        EXCEPT !.salt = salt]

render_our_formatted_json(our_app_compose) ==
    LET docker_compose_content == our_app_compose.docker_compose_file
        pre_launch_script == our_app_compose.pre_launch_script
        docker_compose_escaped ==
            slice_1_m1(json_dumps_str(docker_compose_content))
        pre_launch_escaped == slice_1_m1(json_dumps_str(pre_launch_script))
    IN  format_our_json(docker_compose_escaped, pre_launch_escaped,
                        our_app_compose.salt)

\* our_hash == deployed_hash
hashes_match(ours, deployed) == ours = deployed

\* A faulty exit that reports success whatever the verdict.
exit_code_ignoring_verdict(ok) == 0

\* The argument of the final sys.exit.
exit_code(ok) == IF ok THEN 0 ELSE 1

\* The status the interpreter exits with on an uncaught exception.
UncaughtExceptionStatus == 1
\* The status of sys.exit(1) after the usage message.
UsageStatus == 1

-----------------------------------------------------------------------------
(* Deployed files.                                                         *)

\* The downloaded deployed file the template was copied from, for a given
\* compose text, boot script and salt: the template's layout with the three
\* variable members written as JSON strings.
deployed_document(compose, script, salt) ==
    LET i == FirstIndex(template, DOCKER_COMPOSE_CONTENT)
        j == FirstIndex(template, PRE_LAUNCH_SCRIPT)
        k == FirstIndex(template, DEFAULT_SALT)
    IN  SubSeq(template, 1, i - 1)
        \o EscapeString(compose)
        \o SubSeq(template, i + Len(DOCKER_COMPOSE_CONTENT), j - 1)
        \o EscapeString(script)
        \o SubSeq(template, j + Len(PRE_LAUNCH_SCRIPT), k - 1)
        \o EscapeString(salt)
        \o SubSeq(template, k + Len(DEFAULT_SALT), Len(template))

\* A deployed manifest without a salt member.
deployed_document_without_salt ==
    <<"{", "\"", "n", "a", "m", "e", "\"", ":", "\"", "n", "\"", "}">>

\* Files that are not a JSON object: an empty file, a truncated document,
\* and a JSON array.
empty_file == <<>>
truncated_file == <<"{", "\"", "s", "a", "l", "t", "\"", ":">>
array_file == <<"[", "]">>

\* Boot scripts of deployed manifests: the default one and another one.
DeployedScripts == { get_default_pre_launch_script, <<"n">> }

\* The deployed files tried against a local compose text: manifests of the
\* same text and of the text with one character added, written by the
\* deployment system or by this repository's generate command, and files
\* that are no manifest at all.
DeployedFilesFor(compose) ==
    LET texts == IF compose = NoFile THEN { <<"n">> }
                 ELSE { compose, compose \o <<"n">> }
    IN  { deployed_document(c, b, s) :
              c \in texts, b \in DeployedScripts, s \in Salts }
        \cup { to_dstack_format_json(
                  [docker_compose_to_app_compose(c)
                      EXCEPT !.pre_launch_script = b]) :
                  c \in texts, b \in DeployedScripts }
        \cup { deployed_document_without_salt, empty_file, truncated_file,
               array_file, NoFile }

\* json.load on the files above: "dict" for a JSON object, "list" for a JSON
\* array, "JSONDecodeError" for the rest.
json_load_kind(bytes) ==
    IF Len(bytes) >= 2 /\ bytes[1] = "{" /\ bytes[Len(bytes)] = "}"
        THEN "dict"
    ELSE IF Len(bytes) >= 2 /\ bytes[1] = "[" /\ bytes[Len(bytes)] = "]"
        THEN "list"
    ELSE "JSONDecodeError"

-----------------------------------------------------------------------------
(* Specification SpecVerify: one run of the verify command.                *)

InitVerify ==
    /\ pc = "main"
    /\ \/ /\ argc \in {2, 4}
          /\ compose_text = NoFile
          /\ deployed_file = NoFile
       \/ /\ argc = 3
          /\ compose_text \in ComposeTexts \cup {NoFile}
          /\ deployed_file \in DeployedFilesFor(compose_text)
    /\ app_compose = NoValue
    /\ rendered = NoValue
    /\ compose_hash = NoValue
    /\ deployed_salt = NoValue
    /\ deployed_hash = NoValue
    /\ our_formatted_json = NoValue
    /\ saved_file = NoFile
    /\ our_hash = NoValue
    /\ success = FALSE
    /\ exit_status = Running
    /\ data = NoValue
    /\ sorted_data = NoValue
    /\ processed_data = NoValue
    /\ deterministic_json = NoValue

\* if len(sys.argv) != 3: print usage; sys.exit(1)
ArgCheck ==
    /\ pc = "main"
    /\ IF argc # 3
          THEN /\ pc' = "usage"
               /\ exit_status' = UsageStatus
          ELSE /\ pc' = "load_deployed"
               /\ UNCHANGED exit_status
    /\ UNCHANGED <<argc, deployed_file, deployed_salt, deployed_hash,
                   our_formatted_json, saved_file, our_hash, success>>
    /\ UNCHANGED renderVars
    /\ UNCHANGED canonVars

\* Lines 26-34: load the deployed file, take its salt, hash its bytes.
\* open() raises for a missing file, json.load for a file that is not JSON,
\* .get for a JSON value that is not an object; nothing catches them.
LoadDeployed ==
    /\ pc = "load_deployed"
    /\ IF deployed_file = NoFile
          THEN /\ pc' = "FileNotFoundError"
               /\ exit_status' = UncaughtExceptionStatus
               /\ UNCHANGED <<deployed_salt, deployed_hash>>
       ELSE IF json_load_kind(deployed_file) = "JSONDecodeError"
          THEN /\ pc' = "JSONDecodeError"
               /\ exit_status' = UncaughtExceptionStatus
               /\ UNCHANGED <<deployed_salt, deployed_hash>>
       ELSE IF json_load_kind(deployed_file) = "list"
          THEN /\ pc' = "AttributeError"
               /\ exit_status' = UncaughtExceptionStatus
               /\ UNCHANGED <<deployed_salt, deployed_hash>>
       ELSE /\ deployed_salt' = json_get_string(deployed_file, key_salt)
            /\ deployed_hash' = sha256_hexdigest(deployed_file)
            /\ pc' = "build_local"
            /\ UNCHANGED exit_status
    /\ UNCHANGED <<argc, deployed_file, our_formatted_json, saved_file,
                   our_hash, success>>
    /\ UNCHANGED renderVars
    /\ UNCHANGED canonVars

\* Lines 40-72: build the local manifest, put the deployed salt in, render.
\* docker_compose_to_app_compose raises when the compose file is missing.
BuildLocal ==
    /\ pc = "build_local"
    /\ IF compose_text = NoFile
          THEN /\ pc' = "FileNotFoundError"
               /\ exit_status' = UncaughtExceptionStatus
               /\ UNCHANGED <<app_compose, our_formatted_json>>
          ELSE /\ app_compose' =
                     our_app_compose_for(compose_text, deployed_salt)
               /\ our_formatted_json' =
                     render_our_formatted_json(app_compose')
               /\ pc' = "save"
               /\ UNCHANGED exit_status
    /\ UNCHANGED <<argc, deployed_file, deployed_salt, deployed_hash,
                   saved_file, our_hash, success>>
    /\ UNCHANGED <<compose_text, rendered, compose_hash>>
    /\ UNCHANGED canonVars

\* Lines 75-76: save our-app-compose-with-deployed-salt.json.
SaveLocal ==
    /\ pc = "save"
    /\ saved_file' = our_formatted_json
    /\ pc' = "compare"
    /\ UNCHANGED <<argc, deployed_file, deployed_salt, deployed_hash,
                   our_formatted_json, our_hash, success, exit_status>>
    /\ UNCHANGED renderVars
    /\ UNCHANGED canonVars

\* Lines 78-91: hash the local document and compare.
Compare ==
    /\ pc = "compare"
    /\ our_hash' = sha256_hexdigest(our_formatted_json)
    /\ success' = hashes_match(our_hash', deployed_hash)
    /\ pc' = "returned"
    /\ UNCHANGED <<argc, deployed_file, deployed_salt, deployed_hash,
                   our_formatted_json, saved_file, exit_status>>
    /\ UNCHANGED renderVars
    /\ UNCHANGED canonVars

\* Line 102: sys.exit(0 if success else 1)
Exit ==
    /\ pc = "returned"
    /\ exit_status' = exit_code(success)
    /\ pc' = "exited"
    /\ UNCHANGED <<argc, deployed_file, deployed_salt, deployed_hash,
                   our_formatted_json, saved_file, our_hash, success>>
    /\ UNCHANGED renderVars
    /\ UNCHANGED canonVars

NextVerify ==
    ArgCheck \/ LoadDeployed \/ BuildLocal \/ SaveLocal \/ Compare \/ Exit

SpecVerify == InitVerify /\ [][NextVerify]_vars

-----------------------------------------------------------------------------
(* get-compose-hash.py: the canonical serializer.                          *)
(*                                                                         *)
(* A JSON value is a record [t, v]: t names the Python type, v holds the   *)
(* value.  A dict is the sequence of its <<key, value>> items in insertion *)
(* order, with distinct keys; a float is named by its repr.                *)

JNull == [t |-> "NoneType", v |-> <<>>]
JBool(b) == [t |-> "bool", v |-> b]
JStr(s) == [t |-> "str", v |-> s]
JFloat(r) == [t |-> "float", v |-> r]
JList(items) == [t |-> "list", v |-> items]
JDict(items) == [t |-> "dict", v |-> items]

\* Most nodes (scalars and containers) of a value given to
\* to_deterministic_json.
MaxNodes == 4

\* The floats of the model, by repr: one finite and the three non-finite.
Floats == { "1.5", "nan", "inf", "-inf" }
Scalars == { JNull, JStr(<<"n">>) } \cup { JFloat(r) : r \in Floats }

\* The keys of the model: by code point the upper-case letter sorts before
\* the lower-case one.
Keys == { <<"a">>, <<"B">> }

\* ord(c) for the characters of keys.
ord(c) ==
    CASE c = "B" -> 66
      [] c = "a" -> 97
      [] c = "b" -> 98

\* Python's a < b on str: lexicographic by code point.
RECURSIVE str_less(_, _)
str_less(a, b) ==
    IF b = <<>> THEN FALSE
    ELSE IF a = <<>> THEN TRUE
    ELSE IF ord(Head(a)) # ord(Head(b)) THEN ord(Head(a)) < ord(Head(b))
    ELSE str_less(Tail(a), Tail(b))

\* The sequences over 1..Len(items) define the orders of a dict's items.
PermutationsOf(items) ==
    { [i \in 1..Len(items) |-> items[p[i]]] :
         p \in Permutations(1..Len(items)) }

\* Values with exactly n nodes, and sequences of values with n nodes in all.
RECURSIVE ValuesOfSize(_), ValueSeqsOfSize(_)
ValuesOfSize(n) ==
    IF n = 1 THEN Scalars \cup { JList(<<>>), JDict(<<>>) }
    ELSE LET children == ValueSeqsOfSize(n - 1)
         IN  { JList(c) : c \in children }
             \cup UNION { { JDict([i \in 1..Len(c) |-> <<ks[i], c[i]>>]) :
                              ks \in { k \in [1..Len(c) -> Keys] :
                                         \A i, j \in 1..Len(c) :
                                            i # j => k[i] # k[j] } } :
                          c \in { c \in children : Len(c) <= Cardinality(Keys) } }
ValueSeqsOfSize(n) ==
    IF n = 0 THEN { <<>> }
    ELSE UNION { { <<first>> \o rest :
                      first \in ValuesOfSize(k),
                      rest \in ValueSeqsOfSize(n - k) } : k \in 1..n }

JsonValues == UNION { ValuesOfSize(n) : n \in 1..MaxNodes }

\* sorted(obj.items()): the items in ascending order of key.
RECURSIVE sorted_items(_)
sorted_items(items) ==
    IF items = <<>> THEN <<>>
    ELSE LET m == CHOOSE i \in 1..Len(items) :
                     \A j \in 1..Len(items) :
                        j # i => str_less(items[i][1], items[j][1])
         IN  <<items[m]>>
             \o sorted_items(SubSeq(items, 1, m - 1)
                             \o SubSeq(items, m + 1, Len(items)))

\* A faulty sort_object that leaves the elements of a list as they are.
RECURSIVE sort_object_skipping_lists(_)
sort_object_skipping_lists(obj) ==
    IF obj.t = "dict"
        THEN LET items == sorted_items(obj.v)
             IN  JDict([i \in 1..Len(items) |->
                          <<items[i][1],
                            sort_object_skipping_lists(items[i][2])>>])
    ELSE obj

RECURSIVE sort_object(_)
sort_object(obj) ==
    IF obj.t = "NoneType" THEN obj
    ELSE IF obj.t = "list"
        THEN JList([i \in 1..Len(obj.v) |-> sort_object(obj.v[i])])
    ELSE IF obj.t = "dict"
        THEN LET items == sorted_items(obj.v)
             IN  JDict([i \in 1..Len(items) |->
                          <<items[i][1], sort_object(items[i][2])>>])
    ELSE obj

\* A faulty convert_special_values that misses negative infinity.
convert_special_values_missing_neg_inf(obj) ==
    IF obj.t = "float"
        THEN IF obj.v = "nan" THEN JNull
             ELSE IF obj.v = "inf" THEN JNull
             ELSE obj
    ELSE obj

convert_special_values(obj) ==
    IF obj.t = "float"
        THEN IF obj.v = "nan" THEN JNull
             ELSE IF obj.v = "inf" \/ obj.v = "-inf" THEN JNull
             ELSE obj
    ELSE obj

RECURSIVE process_data(_)
process_data(obj) ==
    IF obj.t = "dict"
        THEN JDict([i \in 1..Len(obj.v) |->
                      <<obj.v[i][1], process_data(obj.v[i][2])>>])
    ELSE IF obj.t = "list"
        THEN JList([i \in 1..Len(obj.v) |-> process_data(obj.v[i])])
    ELSE convert_special_values(obj)

\* float.__repr__ as json.dumps writes it (allow_nan is left at True).
float_repr(r) ==
    CASE r = "nan"  -> <<"N", "a", "N">>
      [] r = "inf"  -> <<"I", "n", "f", "i", "n", "i", "t", "y">>
      [] r = "-inf" -> <<"-", "I", "n", "f", "i", "n", "i", "t", "y">>
      [] r = "1.5"  -> <<"1", ".", "5">>

\* json.dumps(obj, separators=(",", ":"), ensure_ascii=False)
RECURSIVE json_dumps(_), json_dumps_items(_, _)
json_dumps(obj) ==
    CASE obj.t = "NoneType" -> <<"n", "u", "l", "l">>
      [] obj.t = "bool" -> IF obj.v THEN <<"t", "r", "u", "e">>
                           ELSE <<"f", "a", "l", "s", "e">>
      [] obj.t = "str" -> json_dumps_str(obj.v)
      [] obj.t = "float" -> float_repr(obj.v)
      [] obj.t = "list" -> <<"[">> \o json_dumps_items(obj.v, FALSE) \o <<"]">>
      [] obj.t = "dict" -> <<"{">> \o json_dumps_items(obj.v, TRUE) \o <<"}">>
json_dumps_items(items, keyed) ==
    IF items = <<>> THEN <<>>
    ELSE (IF keyed
             THEN json_dumps_str(Head(items)[1]) \o <<":">>
                  \o json_dumps(Head(items)[2])
             ELSE json_dumps(Head(items)))
         \o (IF Len(items) > 1 THEN <<",">> ELSE <<>>)
         \o json_dumps_items(Tail(items), keyed)

to_deterministic_json(d) ==
    LET sorted == sort_object(d)
        processed == process_data(sorted)
    IN  json_dumps(processed)

-----------------------------------------------------------------------------
(* Specification SpecCanon: one call of to_deterministic_json.             *)

InitCanon ==
    /\ pc = "sort"
    /\ data \in JsonValues
    /\ sorted_data = NoValue
    /\ processed_data = NoValue
    /\ deterministic_json = NoValue
    /\ compose_text = NoFile
    /\ app_compose = NoValue
    /\ rendered = NoValue
    /\ compose_hash = NoValue
    /\ argc = 0
    /\ deployed_file = NoFile
    /\ deployed_salt = NoValue
    /\ deployed_hash = NoValue
    /\ our_formatted_json = NoValue
    /\ saved_file = NoFile
    /\ our_hash = NoValue
    /\ success = FALSE
    /\ exit_status = Running

\* sorted_data = sort_object(data)
SortData ==
    /\ pc = "sort"
    /\ sorted_data' = sort_object(data)
    /\ pc' = "process"
    /\ UNCHANGED <<data, processed_data, deterministic_json>>
    /\ UNCHANGED renderVars
    /\ UNCHANGED verifyVars

\* processed_data = process_data(sorted_data)
ProcessData ==
    /\ pc = "process"
    /\ processed_data' = process_data(sorted_data)
    /\ pc' = "dump"
    /\ UNCHANGED <<data, sorted_data, deterministic_json>>
    /\ UNCHANGED renderVars
    /\ UNCHANGED verifyVars

\* return json.dumps(processed_data, separators=(",", ":"), ...)
DumpData ==
    /\ pc = "dump"
    /\ deterministic_json' = json_dumps(processed_data)
    /\ pc' = "dumped"
    /\ UNCHANGED <<data, sorted_data, processed_data>>
    /\ UNCHANGED renderVars
    /\ UNCHANGED verifyVars

NextCanon == SortData \/ ProcessData \/ DumpData

SpecCanon == InitCanon /\ [][NextCanon]_vars

-----------------------------------------------------------------------------
(* Claims.                                                                 *)

RenderDone == pc \in {"rendered", "hashed"}

\* C5: the literal rendering holds exactly the two texts: reading
\* docker_compose_file and pre_launch_script back from the rendering returns
\* the compose text and the boot script it was made from, also when a text
\* contains a placeholder token of the template.
C5_FieldsEmbeddedVerbatim ==
    RenderDone =>
        /\ json_get_string(rendered, key_docker_compose_file)
             = app_compose.docker_compose_file
        /\ json_get_string(rendered, key_pre_launch_script)
             = app_compose.pre_launch_script

\* C6: the rendering that get_compose_hash hashes carries the salt of the
\* manifest it was given, so manifests that differ only in salt have
\* different renderings and digests.
C6_RenderingCarriesManifestSalt ==
    RenderDone =>
        /\ json_get_string(rendered, key_salt) = app_compose.salt
        /\ \A s \in Salts \ {app_compose.salt} :
              to_dstack_format_json([app_compose EXCEPT !.salt = s])
                 # rendered

Matched == pc \in {"returned", "exited"} /\ success = TRUE

\* C1: verify_deployed_hash returns True exactly when the digest of the
\* locally rendered document equals the deployed digest, and the command
\* exits with 0 exactly when it returned True, non-zero otherwise.
C1_MatchedIffDigestsEqual ==
    /\ pc \in {"returned", "exited"} =>
          /\ our_hash = sha256_hexdigest(our_formatted_json)
          /\ deployed_hash = sha256_hexdigest(deployed_file)
          /\ success = (sha256_hexdigest(render_our_formatted_json(
                            our_app_compose_for(compose_text, deployed_salt)))
                        = sha256_hexdigest(deployed_file))
    /\ pc = "exited" => (exit_status = 0 <=> success = TRUE)
    /\ exit_status = 0 => Matched

C1_Witness_MatchedExit == pc = "exited" /\ success = TRUE /\ exit_status = 0

LocalBuilt == pc \in {"save", "compare", "returned", "exited"}

\* The deployed file is a manifest of the deployment system with salt s.
DeployedWithSalt(s) ==
    \E c \in {compose_text, compose_text \o <<"n">>}, b \in DeployedScripts :
        deployed_file = deployed_document(c, b, s)

\* C2: the salt in the locally rendered, saved and hashed document is the
\* salt of the deployed manifest; for a deployed salt other than the default
\* the local document holds the deployed salt and not the default one.
C2_LocalDocumentHasDeployedSalt ==
    LocalBuilt =>
        /\ json_get_string(our_formatted_json, key_salt)
              = py_format(deployed_salt)
        /\ \A s \in Salts :
              DeployedWithSalt(s) =>
                  /\ json_get_string(our_formatted_json, key_salt) = s
                  /\ s # DEFAULT_SALT =>
                        FirstIndex(our_formatted_json, DEFAULT_SALT) = 0
        /\ pc \in {"returned", "exited"} =>
              our_hash = sha256_hexdigest(our_formatted_json)

C2_Witness_NonDefaultSaltUsed ==
    /\ pc = "exited"
    /\ \E s \in Salts \ {DEFAULT_SALT} :
          /\ DeployedWithSalt(s)
          /\ json_get_string(our_formatted_json, key_salt) = s
    /\ success = TRUE

\* C3: when the deployed file is the literal rendering (to_dstack_format_json)
\* of the manifest built from the local compose text, the local boot script
\* and some salt, verify returns Matched.
C3_VerificationSymmetry ==
    pc \in {"returned", "exited"} =>
        ((\E s \in Salts :
             deployed_file = to_dstack_format_json(
                 our_app_compose_for(compose_text, s)))
         => success = TRUE)

\* C4: after Matched, every other compose text, with the deployed file held
\* fixed, renders to other bytes than the matched document and gives a
\* digest that is not the deployed one: the locally rendered document is an
\* injective function of the compose text.
C4_ComposeTextSensitivity ==
    (pc = "returned" /\ success = TRUE) =>
        \A other \in ComposeTexts \ {compose_text} :
            LET theirs == render_our_formatted_json(
                              our_app_compose_for(other, deployed_salt))
            IN  /\ theirs # our_formatted_json
                /\ ~ hashes_match(sha256_hexdigest(theirs), deployed_hash)

C4_Witness_MatchedWithEscapes ==
    /\ Matched
    /\ compose_text = <<"\\", "n">>

\* C9: a mismatch exits with a non-zero status that differs from the status
\* of a crash or usage error, and the local document has been saved by then.
C9_MismatchStatusDistinctFromCrash ==
    (pc = "exited" /\ success = FALSE) =>
        /\ exit_status # 0
        /\ exit_status # UncaughtExceptionStatus
        /\ exit_status # UsageStatus
        /\ saved_file = our_formatted_json

\* C10: with the default salt deployed, the document rendered inside
\* verify_deployed_hash equals to_dstack_format_json of the same manifest,
\* and so do their digests.
C10_RenderersAgree ==
    (LocalBuilt /\ deployed_salt = DEFAULT_SALT) =>
        /\ our_formatted_json = to_dstack_format_json(app_compose)
        /\ sha256_hexdigest(our_formatted_json) = get_compose_hash(app_compose)

\* The values that differ from value only in the insertion order of the keys
\* of its mappings, at any depth.
RECURSIVE KeyOrderVariants(_), KeyOrderVariantSeqs(_, _)
KeyOrderVariants(value) ==
    IF value.t = "list"
        THEN { JList(items) : items \in KeyOrderVariantSeqs(value.v, FALSE) }
    ELSE IF value.t = "dict"
        THEN UNION { { JDict(items) :
                          items \in KeyOrderVariantSeqs(order, TRUE) } :
                     order \in PermutationsOf(value.v) }
    ELSE { value }
KeyOrderVariantSeqs(items, keyed) ==
    IF items = <<>> THEN { <<>> }
    ELSE { <<first>> \o rest :
              first \in (IF keyed
                           THEN { <<Head(items)[1], x>> :
                                     x \in KeyOrderVariants(Head(items)[2]) }
                           ELSE KeyOrderVariants(Head(items))),
              rest \in KeyOrderVariantSeqs(Tail(items), keyed) }

\* Every mapping of value has its keys in ascending order.
RECURSIVE KeysAscending(_)
KeysAscending(value) ==
    IF value.t = "list"
        THEN \A i \in 1..Len(value.v) : KeysAscending(value.v[i])
    ELSE IF value.t = "dict"
        THEN /\ \A i \in 1..(Len(value.v) - 1) :
                   str_less(value.v[i][1], value.v[i + 1][1])
             /\ \A i \in 1..Len(value.v) : KeysAscending(value.v[i][2])
    ELSE TRUE

IsNonFinite(value) ==
    value.t = "float" /\ value.v \in {"nan", "inf", "-inf"}

\* out is in with mappings reordered and non-finite numbers made null:
\* sequences keep their length and the order of their elements, mappings
\* keep their keys and each key its value.
RECURSIVE SameContent(_, _)
SameContent(in, out) ==
    IF in.t = "list"
        THEN /\ out.t = "list"
             /\ Len(out.v) = Len(in.v)
             /\ \A i \in 1..Len(in.v) : SameContent(in.v[i], out.v[i])
    ELSE IF in.t = "dict"
        THEN /\ out.t = "dict"
             /\ Len(out.v) = Len(in.v)
             /\ \A i \in 1..Len(in.v) :
                   \E j \in 1..Len(out.v) :
                      /\ out.v[j][1] = in.v[i][1]
                      /\ SameContent(in.v[i][2], out.v[j][2])
    ELSE IF IsNonFinite(in) THEN out = JNull
    ELSE out = in

\* C7: to_deterministic_json returns the same string for every insertion
\* order of the keys of the value's mappings, at any depth, with the keys of
\* each mapping ascending and the elements of each sequence in their order.
C7_KeyOrderInvariance ==
    pc = "dumped" =>
        /\ \A variant \in KeyOrderVariants(data) :
              to_deterministic_json(variant) = deterministic_json
        /\ KeysAscending(processed_data)
        /\ SameContent(data, processed_data)
        /\ deterministic_json = json_dumps(processed_data)

C7_Witness_NestedMappingReordered ==
    /\ pc = "dumped"
    /\ data.t = "list"
    /\ \E i \in 1..Len(data.v) :
          /\ data.v[i].t = "dict"
          /\ Len(data.v[i].v) = 2
          /\ ~ KeysAscending(data.v[i])

\* value with null in the place of every non-finite number.
RECURSIVE NullForNonFinite(_)
NullForNonFinite(value) ==
    IF value.t = "list"
        THEN JList([i \in 1..Len(value.v) |-> NullForNonFinite(value.v[i])])
    ELSE IF value.t = "dict"
        THEN JDict([i \in 1..Len(value.v) |->
                      <<value.v[i][1], NullForNonFinite(value.v[i][2])>>])
    ELSE IF IsNonFinite(value) THEN JNull
    ELSE value

RECURSIVE HasNonFinite(_)
HasNonFinite(value) ==
    IF value.t = "list"
        THEN \E i \in 1..Len(value.v) : HasNonFinite(value.v[i])
    ELSE IF value.t = "dict"
        THEN \E i \in 1..Len(value.v) : HasNonFinite(value.v[i][2])
    ELSE IsNonFinite(value)

\* C8: the canonical form of a value equals the canonical form of the value
\* with null in the place of every NaN, +Infinity and -Infinity, at any
\* depth, and the output holds no non-finite number.
C8_NonFiniteBecomesNull ==
    pc = "dumped" =>
        /\ deterministic_json = to_deterministic_json(NullForNonFinite(data))
        /\ ~ HasNonFinite(processed_data)
        /\ deterministic_json = json_dumps(processed_data)
        /\ \A r \in {"nan", "inf", "-inf"} :
              FirstIndex(deterministic_json, float_repr(r)) = 0

C8_Witness_NestedNonFinite ==
    /\ pc = "dumped"
    /\ data.t = "list"
    /\ \E i \in 1..Len(data.v) :
          /\ data.v[i].t = "dict"
          /\ \E j \in 1..Len(data.v[i].v) :
                data.v[i].v[j][2] = JFloat("-inf")

=============================================================================
